---- MODULE Spec2Model ----
(***************************************************************************)
(* Session orchestrator of the chess reel prototype: the zustand store     *)
(* (useGameStore.js), the EngineService component with its hidden WebView  *)
(* page (EngineService.js) and the two setTimeout callbacks of             *)
(* updateEvaluation.                                                       *)
(*                                                                         *)
(* The presentation layer issues the four store commands.  startSession   *)
(* comes from the reel player's start button, which is shown from the      *)
(* moment the video pauses at its trigger timestamp until it is pressed;   *)
(* resetSession comes from the reel player's effect on sessionStatus       *)
(* 'ended'; endSession comes from the exit button of the session overlay,  *)
(* which is rendered unless the status is 'idle'.                          *)
(* makeMove is the store's entry point for a user move and is called with  *)
(* any two squares in any state.                                           *)
(*                                                                         *)
(* One action is one JavaScript task.  React renders once after the task   *)
(* with the store's final values, so the evaluate effect of EngineService  *)
(* and the mounting of the WebView are part of the action that changed     *)
(* the store.  The page runs in its own event loop: messages to the page   *)
(* and messages from the page travel in queues.                            *)
(*                                                                         *)
(* Scores are kept in hundredths of a pawn, so that -1.5 pawns is -150.    *)
(* chess.js is replaced by a board of two files, one white piece and two   *)
(* black pieces: a piece steps one square forward in its file and captures *)
(* what it lands on; a position carries the side to move and a move        *)
(* counter, as a FEN does.                                                 *)
(***************************************************************************)
EXTENDS Integers, Sequences, FiniteSets, TLC

VARIABLES
    \* ---- useGameStore state ----
    fen, chess, moveHistory, lastMove, suggestedMove, playerColor,
    evaluation, evalStatus, isEvaluating, isBotThinking,
    sessionStatus, isReelPaused,
    \* ---- EngineService component ----
    engineReady,      \* useState(false)
    \* ---- WebView page ----
    initState,        \* "none" (no WebView), "loading" (script not run yet),
                      \* "pending" (initEngine running), "done"
    engine,           \* "null" | "worker"
    isReady,
    currentEval,      \* NoEval or [set, score, forFen]
    search,           \* positions the worker has been told to search and has
                      \* not yet printed the bestmove line for, oldest first
    \* ---- channels ----
    toPage,           \* RN -> WebView postMessage queue (fen of each evaluate)
    toRN,             \* WebView -> RN postMessage queue
    \* ---- setTimeout queue ----
    timers,
    \* ---- ReelPlayer component ----
    playing,          \* the video player is playing
    hasTriggered,     \* useState(false)
    showTriggerUI,    \* useState(false): the start button is rendered
    resumeTimer,      \* the 800 ms timeout of the session-ended effect is pending
    resetTimers,      \* number of pending setTimeout(() => resetSession(), 500)
    \* ---- history (not program state) ----
    sessionId,        \* number of startSession calls so far
    asked,            \* positions the current page has accepted for evaluation
    engineFault       \* the current page reported an init failure or a worker error

storeVars == <<fen, chess, moveHistory, lastMove, suggestedMove, playerColor,
               evaluation, evalStatus, isEvaluating, isBotThinking,
               sessionStatus, isReelPaused>>
pageVars == <<initState, engine, isReady, currentEval, search>>
histVars == <<sessionId, asked, engineFault>>
reelVars == <<playing, hasTriggered, showTriggerUI, resumeTimer, resetTimers>>
vars == <<storeVars, engineReady, pageVars, toPage, toRN, timers, reelVars, histVars>>

\* ------------------------------------------------------------------------
\* Bounds
MaxPlies == 2         \* the user moves during the first MaxPlies plies of a game
MaxTimers == 2        \* pending setTimeout callbacks
MaxQueue == 2         \* messages in flight that the engine or its loading produced
MaxSessions == 2      \* startSession calls made on the store directly
MaxScore == 160       \* engine scores range over -MaxScore..MaxScore hundredths of a pawn

\* ------------------------------------------------------------------------
\* Values
Null == <<>>                      \* null for a FEN string or a move
NoChess == [board |-> <<>>, turn |-> "-", ply |-> 0]      \* chess: null
NoEval == [set |-> FALSE, score |-> 0, forFen |-> <<>>]         \* currentEval = null
Squares == {1, 2, 3, 4, 5}        \* file a is 1, 2, 3 and file b is 4, 5
Colors == {"w", "b"}
\* the page reports +999 or -999 pawns for a forced mate
MATE_SCORE == 99900
\* engine scores, side-to-move perspective
RawScores == {0 - MATE_SCORE, -150, -80, 0, 80, 150, MATE_SCORE}

WARNING_THRESHOLD == -80
FAIL_THRESHOLD == -150

BOT_DELAY == 500
FAIL_DELAY == 1200

\* ------------------------------------------------------------------------
\* Board (stands for chess.js)
Other(c) == IF c = "w" THEN "b" ELSE "w"

\* white stands at the bottom of file a, black at the top of both files
StartBoard == [s \in Squares |-> IF s = 1 THEN "w"
                                 ELSE IF s \in {3, 5} THEN "b" ELSE "-"]

\* chess.fen(): board as a string of squares, side to move, move counter
FenOf(pos) == <<[i \in 1..Cardinality(Squares) |-> pos.board[i]], pos.turn, pos.ply>>

\* new Chess(fen)
ParseFen(f) == [board |-> [s \in Squares |-> f[1][s]], turn |-> f[2], ply |-> f[3]]

\* the position a session starts from: black is to move, as in REEL_DATA.fen
StartFens == {FenOf([board |-> StartBoard, turn |-> "b", ply |-> 0])}

\* the side the user plays in the app: REEL_DATA.playerColor
ReelPlayerColor == "b"

\* chess.turn()
Turn(pos) == pos.turn

\* the square in front of s for the side c; 0 beyond the end of the file
Ahead(s, c) ==
    IF c = "w" THEN (IF s \in {3, 5} THEN 0 ELSE s + 1)
    ELSE (IF s \in {1, 4} THEN 0 ELSE s - 1)

\* chess.moves(): moves of the side to move
LegalMoves(pos) ==
    {m \in Squares \X Squares :
        /\ pos.board[m[1]] = pos.turn
        /\ m[2] = Ahead(m[1], pos.turn)
        /\ pos.board[m[2]] # pos.turn}

\* chess.move({from, to}): the position after a legal move
ApplyMove(pos, m) ==
    [board |-> [s \in Squares |-> IF s = m[1] THEN "-"
                                  ELSE IF s = m[2] THEN pos.turn
                                  ELSE pos.board[s]],
     turn |-> Other(pos.turn),
     ply |-> pos.ply + 1]

\* move.san
San(pos, m) == <<m[1], IF pos.board[m[2]] = "-" THEN "-" ELSE "x", m[2]>>


\* ------------------------------------------------------------------------
\* useGameStore: each definition gives the store fields after the call
\* classifyEval with strict comparisons
classifyEvalStrict(score) ==
    IF score < FAIL_THRESHOLD THEN "fail"
    ELSE IF score < WARNING_THRESHOLD THEN "warning"
    ELSE "safe"

classifyEval(score) ==
    IF score <= FAIL_THRESHOLD THEN "fail"
    ELSE IF score <= WARNING_THRESHOLD THEN "warning"
    ELSE "safe"

\* EvaluationController.classifyEvaluation, with its own copy of the thresholds
classifyEvaluation(scoreInPawns) ==
    IF scoreInPawns <= -150 THEN "fail"
    ELSE IF scoreInPawns <= -80 THEN "warning"
    ELSE "safe"

\* EvaluationController.evaluatePosition: the switch on the tier
evaluatePosition(scoreInPawns) ==
    LET status == classifyEvaluation(scoreInPawns)
    IN  CASE status = "safe" -> [status |-> status, shouldContinue |-> TRUE]
          [] status = "warning" -> [status |-> status, shouldContinue |-> TRUE]
          [] status = "fail" -> [status |-> status, shouldContinue |-> FALSE]
          [] OTHER -> [status |-> "safe", shouldContinue |-> TRUE]

\* startSession that builds the board with new Chess() and not from the fen
startSessionDefaultBoard(f, pc) ==
    /\ fen' = f
    /\ chess' = [board |-> StartBoard, turn |-> "w", ply |-> 0]
    /\ moveHistory' = <<>>
    /\ playerColor' = pc
    /\ evaluation' = 0
    /\ evalStatus' = "safe"
    /\ isEvaluating' = TRUE
    /\ isBotThinking' = FALSE
    /\ sessionStatus' = "active"
    /\ isReelPaused' = TRUE
    /\ UNCHANGED <<lastMove, suggestedMove>>

startSession(f, pc) ==
    /\ fen' = f
    /\ chess' = ParseFen(f)
    /\ moveHistory' = <<>>
    /\ playerColor' = pc
    /\ evaluation' = 0
    /\ evalStatus' = "safe"
    /\ isEvaluating' = TRUE
    /\ isBotThinking' = FALSE
    /\ sessionStatus' = "active"
    /\ isReelPaused' = TRUE
    /\ UNCHANGED <<lastMove, suggestedMove>>

\* makeMove that keeps only the latest move in the history
makeMoveOverwritesHistory(from, to) ==
    IF chess # NoChess /\ <<from, to>> \in LegalMoves(chess)
    THEN /\ chess' = ApplyMove(chess, <<from, to>>)
         /\ fen' = FenOf(chess')
         /\ moveHistory' = <<San(chess, <<from, to>>)>>
         /\ lastMove' = <<from, to>>
         /\ isEvaluating' = TRUE
         /\ UNCHANGED <<suggestedMove, playerColor, evaluation, evalStatus,
                        isBotThinking, sessionStatus, isReelPaused>>
    ELSE UNCHANGED storeVars

makeMove(from, to) ==
    IF chess # NoChess /\ <<from, to>> \in LegalMoves(chess)
    THEN /\ chess' = ApplyMove(chess, <<from, to>>)
         /\ fen' = FenOf(chess')
         /\ moveHistory' = Append(moveHistory, San(chess, <<from, to>>))
         /\ lastMove' = <<from, to>>
         /\ isEvaluating' = TRUE
         /\ UNCHANGED <<suggestedMove, playerColor, evaluation, evalStatus,
                        isBotThinking, sessionStatus, isReelPaused>>
    ELSE UNCHANGED storeVars

\* bestMove is a UCI string such as 'e2e4', here the pair <<from, to>>.
\* chess.js is not part of the repository: for an illegal move chess.move of
\* a version before 1.0 returns null, so that the branch if (!move) runs,
\* and chess.move of a later version throws, so that makeBotMove is left
\* with the store untouched; both outcomes are kept.
makeBotMove(bestMove) ==
    IF chess = NoChess \/ sessionStatus # "active" \/ bestMove = Null
    THEN UNCHANGED storeVars
    ELSE IF bestMove \in LegalMoves(chess)
    THEN /\ chess' = ApplyMove(chess, bestMove)
         /\ fen' = FenOf(chess')
         /\ moveHistory' = Append(moveHistory, San(chess, bestMove))
         /\ lastMove' = bestMove
         /\ isBotThinking' = FALSE
         /\ isEvaluating' = TRUE
         /\ UNCHANGED <<suggestedMove, playerColor, evaluation, evalStatus,
                        sessionStatus, isReelPaused>>
    ELSE \/ /\ isBotThinking' = FALSE
            /\ UNCHANGED <<chess, fen, moveHistory, lastMove, suggestedMove,
                           playerColor, evaluation, evalStatus, isEvaluating,
                           sessionStatus, isReelPaused>>
         \/ UNCHANGED storeVars

\* the position the response being handled was computed for; Null when
\* updateEvaluation is not called for a response
EvalFen == IF toRN = <<>> THEN Null ELSE Head(toRN).forFen

\* a pending setTimeout callback; sid and forFen record the session and the
\* position at the time it was scheduled, evalFen the position the response
\* being handled was computed for (history, not program state)
FailTimer == [kind |-> "fail", delay |-> FAIL_DELAY, bestMove |-> Null,
              sid |-> sessionId, forFen |-> fen, evalFen |-> EvalFen]
BotTimer(bm) == [kind |-> "bot", delay |-> BOT_DELAY, bestMove |-> bm,
                 sid |-> sessionId, forFen |-> fen, evalFen |-> EvalFen]

updateEvaluation(score, bestMove) ==
    LET status == classifyEval(score)
        isPlayerTurn == chess # NoChess /\ Turn(chess) = playerColor
        newSuggested == IF isPlayerTurn THEN bestMove ELSE Null
    IN  /\ evaluation' = score
        /\ evalStatus' = status
        /\ isEvaluating' = FALSE
        /\ suggestedMove' = newSuggested
        /\ IF status = "fail"
           THEN /\ timers' = Append(timers, FailTimer)
                /\ UNCHANGED isBotThinking
           ELSE IF chess # NoChess /\ Turn(chess) # playerColor /\ bestMove # Null
           THEN /\ isBotThinking' = TRUE
                /\ timers' = Append(timers, BotTimer(bestMove))
           ELSE UNCHANGED <<isBotThinking, timers>>
        /\ UNCHANGED <<fen, chess, moveHistory, lastMove, playerColor,
                       sessionStatus, isReelPaused>>

\* endSession that forgets to release the reel
endSessionKeepsReelPaused ==
    /\ sessionStatus' = "ended"
    /\ UNCHANGED <<isReelPaused, fen, chess, moveHistory, lastMove, suggestedMove,
                   playerColor, evaluation, evalStatus, isEvaluating, isBotThinking>>

endSession ==
    /\ sessionStatus' = "ended"
    /\ isReelPaused' = FALSE
    /\ UNCHANGED <<fen, chess, moveHistory, lastMove, suggestedMove, playerColor,
                   evaluation, evalStatus, isEvaluating, isBotThinking>>

\* resetSession that forgets the status label
resetSessionKeepsStatus ==
    /\ fen' = Null
    /\ chess' = NoChess
    /\ moveHistory' = <<>>
    /\ lastMove' = Null
    /\ evaluation' = 0
    /\ isEvaluating' = FALSE
    /\ isBotThinking' = FALSE
    /\ sessionStatus' = "idle"
    /\ isReelPaused' = FALSE
    /\ UNCHANGED <<suggestedMove, playerColor, evalStatus>>

resetSession ==
    /\ fen' = Null
    /\ chess' = NoChess
    /\ moveHistory' = <<>>
    /\ lastMove' = Null
    /\ evaluation' = 0
    /\ evalStatus' = "safe"
    /\ isEvaluating' = FALSE
    /\ isBotThinking' = FALSE
    /\ sessionStatus' = "idle"
    /\ isReelPaused' = FALSE
    /\ UNCHANGED <<suggestedMove, playerColor>>

\* ------------------------------------------------------------------------
\* EngineService: what the render after a task does
\* messages of the page; forFen records the position an evaluation was
\* computed for (history: the message itself does not carry it)
ReadyMsg == [type |-> "ready", message |-> "", score |-> 0, bestMove |-> Null,
             forFen |-> Null]
ErrorMsg(text) == [type |-> "error", message |-> text, score |-> 0,
                   bestMove |-> Null, forFen |-> Null]
EvalMsg(ce, bm) == [type |-> "eval", message |-> "", score |-> ce.score,
                    bestMove |-> bm, forFen |-> ce.forFen]

\* if (sessionStatus === 'idle') return null;
Mounted(status) == status # "idle"

\* an evaluate effect that does not depend on fen
EffectSendsOnFlags ==
    /\ <<isEvaluating', engineReady', sessionStatus'>>
           # <<isEvaluating, engineReady, sessionStatus>>
    /\ isEvaluating' /\ engineReady' /\ fen' # Null /\ sessionStatus' = "active"

\* the evaluate effect runs when one of its dependencies changed, and posts
\* { type: 'evaluate', fen } when its condition holds
EffectSends ==
    /\ <<isEvaluating', fen', engineReady', sessionStatus'>>
           # <<isEvaluating, fen, engineReady, sessionStatus>>
    /\ isEvaluating' /\ engineReady' /\ fen' # Null /\ sessionStatus' = "active"

\* the message event of an evaluate message in the page; q is what toRN
\* holds. Before the script of the page has run no listener is registered
\* and the event is lost. The script registers handleRNMessage before it
\* calls initEngine, so a message that arrives while the worker is being
\* created is answered with the error.
\* 'stop' makes a running search end with its bestmove line, so the new
\* position joins the positions a bestmove line is owed for.
PageEvaluate(q, f) ==
    IF initState = "loading"
    THEN /\ toRN' = q
         /\ UNCHANGED <<pageVars, asked, engineFault>>
    ELSE IF engine = "null" \/ ~isReady
    THEN /\ toRN' = Append(q, ErrorMsg("Engine not ready"))
         /\ UNCHANGED <<pageVars, asked, engineFault>>
    ELSE /\ currentEval' = NoEval
         /\ search' = Append(search, f)
         /\ toRN' = q
         /\ asked' = asked \cup {f}
         /\ UNCHANGED <<initState, engine, isReady, engineFault>>

\* a WebView that has just been rendered loads a fresh page; sends: the
\* evaluate effect of the same render posts to it
FreshPage(sends) ==
    /\ initState' = "loading"
    /\ engine' = "null"
    /\ isReady' = FALSE
    /\ currentEval' = NoEval
    /\ search' = <<>>
    /\ toPage' = IF sends THEN <<fen'>> ELSE <<>>
    /\ toRN' = <<>>
    /\ asked' = {}
    /\ engineFault' = FALSE

\* a WebView that is no longer rendered takes its page and messages with it
NoPage ==
    /\ initState' = "none"
    /\ engine' = "null"
    /\ isReady' = FALSE
    /\ currentEval' = NoEval
    /\ search' = <<>>
    /\ toPage' = <<>>
    /\ toRN' = <<>>
    /\ asked' = {}
    /\ engineFault' = FALSE

\* the render after a task of the RN side: the WebView is mounted or
\* unmounted, and sendToEngine posts the evaluate message of the effect
Render(q) ==
    IF ~Mounted(sessionStatus')
    THEN IF Mounted(sessionStatus) THEN NoPage
         ELSE /\ toRN' = q
              /\ UNCHANGED <<pageVars, toPage, asked, engineFault>>
    ELSE IF ~Mounted(sessionStatus) THEN FreshPage(EffectSends)
    ELSE /\ toPage' = IF EffectSends THEN Append(toPage, fen') ELSE toPage
         /\ toRN' = q
         /\ UNCHANGED <<pageVars, asked, engineFault>>

\* ------------------------------------------------------------------------
\* ReelPlayer: the effect on [sessionStatus, player, resetSession].  It runs
\* when sessionStatus changes: its cleanup clears the 800 ms timeout, and a
\* new one is set when the status is 'ended'.
ReelEffect ==
    /\ resumeTimer' = IF sessionStatus' = sessionStatus THEN resumeTimer
                      ELSE sessionStatus' = "ended"
    /\ UNCHANGED <<playing, hasTriggered, showTriggerUI, resetTimers>>

\* ReelPlayer's polling interval: the video has reached triggerTimestamp
ReelTrigger ==
    /\ ~hasTriggered
    /\ playing' = FALSE
    /\ hasTriggered' = TRUE
    /\ showTriggerUI' = TRUE
    /\ UNCHANGED <<resumeTimer, resetTimers>>
    /\ UNCHANGED <<storeVars, engineReady, pageVars, toPage, toRN, timers, histVars>>

\* ------------------------------------------------------------------------
\* Commands of the presentation layer
\* handleStartSession, the onPress of the start button
StartSession ==
    /\ showTriggerUI
    /\ showTriggerUI' = FALSE
    /\ sessionId' = sessionId + 1
    /\ \E f \in StartFens : startSession(f, ReelPlayerColor)
    /\ UNCHANGED <<engineReady, timers>>
    /\ Render(toRN)
    /\ resumeTimer' = IF sessionStatus' = sessionStatus THEN resumeTimer
                      ELSE sessionStatus' = "ended"
    /\ UNCHANGED <<playing, hasTriggered, resetTimers>>

MakeMove ==
    /\ chess.ply < MaxPlies
    /\ \E from \in Squares, to \in Squares : makeMove(from, to)
    /\ UNCHANGED <<engineReady, timers, sessionId>>
    /\ Render(toRN)
    /\ ReelEffect

EndSession ==
    /\ sessionStatus # "idle"
    /\ endSession
    /\ UNCHANGED <<engineReady, timers, sessionId>>
    /\ Render(toRN)
    /\ ReelEffect

\* the timeout callback that resumes the reel without starting the player
ResumeReelWithoutPlay ==
    /\ resumeTimer
    /\ resumeTimer' = FALSE
    /\ resetTimers' = resetTimers + 1
    /\ showTriggerUI' = FALSE
    /\ UNCHANGED <<playing, hasTriggered>>
    /\ UNCHANGED <<storeVars, engineReady, pageVars, toPage, toRN, timers, histVars>>

\* ReelPlayer's 800 ms timeout: setShowTriggerUI(false), player.play(), then
\* setTimeout(() => resetSession(), 500)
ResumeReel ==
    /\ resumeTimer
    /\ resumeTimer' = FALSE
    /\ showTriggerUI' = FALSE
    /\ playing' = TRUE
    /\ resetTimers' = resetTimers + 1
    /\ UNCHANGED hasTriggered
    /\ UNCHANGED <<storeVars, engineReady, pageVars, toPage, toRN, timers, histVars>>

\* ReelPlayer's setTimeout(() => resetSession(), 500)
ResetSession ==
    /\ resetTimers > 0
    /\ resetSession
    /\ resetTimers' = resetTimers - 1
    /\ resumeTimer' = IF sessionStatus' = sessionStatus THEN resumeTimer
                      ELSE sessionStatus' = "ended"
    /\ UNCHANGED <<playing, hasTriggered, showTriggerUI, engineReady, timers, sessionId>>
    /\ Render(toRN)

\* ------------------------------------------------------------------------
\* setTimeout callbacks.  A callback runs once every callback that was
\* scheduled before it with a delay no longer than its own has run.
CanFire(i) ==
    \A j \in 1..(i - 1) : timers[j].delay > timers[i].delay

RemoveAt(s, i) == [k \in 1..(Len(s) - 1) |-> IF k < i THEN s[k] ELSE s[k + 1]]

\* setTimeout(() => get().makeBotMove(bestMove), 500)
FireBot(i) ==
        /\ timers[i].kind = "bot"
        /\ CanFire(i)
        /\ makeBotMove(timers[i].bestMove)
        /\ timers' = RemoveAt(timers, i)
        /\ UNCHANGED <<engineReady, sessionId>>
        /\ Render(toRN)
        /\ ReelEffect

FireBotTimer == \E i \in 1..Len(timers) : FireBot(i)

\* setTimeout(() => get().endSession(), 1200)
FireFail(i) ==
        /\ timers[i].kind = "fail"
        /\ CanFire(i)
        /\ endSession
        /\ timers' = RemoveAt(timers, i)
        /\ UNCHANGED <<engineReady, sessionId>>
        /\ Render(toRN)
        /\ ReelEffect

FireFailTimer == \E i \in 1..Len(timers) : FireFail(i)

\* ------------------------------------------------------------------------
\* EngineService.handleMessage
\* perspective adjustment of case 'eval'
\* an adjustment that negates whoever is to move
AdjustScoreAlways(score) == 0 - score

AdjustScore(score) ==
    IF chess # NoChess /\ Turn(chess) # playerColor THEN 0 - score ELSE score

HandleReady ==
    /\ toRN # <<>>
    /\ Head(toRN).type = "ready"
    /\ engineReady' = TRUE
    /\ UNCHANGED storeVars
    /\ Render(Tail(toRN))
    /\ ReelEffect
    /\ UNCHANGED <<timers, sessionId>>

HandleEval ==
    /\ toRN # <<>>
    /\ Head(toRN).type = "eval"
    /\ Len(timers) < MaxTimers
    /\ updateEvaluation(AdjustScore(Head(toRN).score), Head(toRN).bestMove)
    /\ UNCHANGED <<engineReady, sessionId>>
    /\ Render(Tail(toRN))
    /\ ReelEffect

\* an engine error treated as fatal for the session
HandleErrorEndsSession ==
    /\ toRN # <<>>
    /\ Head(toRN).type = "error"
    /\ isEvaluating' = FALSE
    /\ sessionStatus' = "ended"
    /\ isReelPaused' = FALSE
    /\ UNCHANGED <<fen, chess, moveHistory, lastMove, suggestedMove, playerColor,
                   evaluation, evalStatus, isBotThinking>>
    /\ UNCHANGED <<engineReady, timers, sessionId>>
    /\ Render(Tail(toRN))
    /\ ReelEffect

HandleError ==
    /\ toRN # <<>>
    /\ Head(toRN).type = "error"
    /\ isEvaluating' = FALSE
    /\ UNCHANGED <<fen, chess, moveHistory, lastMove, suggestedMove, playerColor,
                   evaluation, evalStatus, isBotThinking, sessionStatus, isReelPaused>>
    /\ UNCHANGED <<engineReady, timers, sessionId>>
    /\ Render(Tail(toRN))
    /\ ReelEffect

\* ------------------------------------------------------------------------
\* WebView page
\* the script of the page runs: it registers handleRNMessage and calls
\* initEngine, which waits for stockfish.js
RunPageScript ==
    /\ initState = "loading"
    /\ initState' = "pending"
    /\ UNCHANGED <<engine, isReady, currentEval, search, toRN>>
    /\ UNCHANGED <<storeVars, engineReady, toPage, timers, reelVars, histVars>>

\* initEngine succeeded: the worker exists and 'uci' was sent
InitOk ==
    /\ initState = "pending"
    /\ initState' = "done"
    /\ engine' = "worker"
    /\ UNCHANGED <<isReady, currentEval, search, toRN>>
    /\ UNCHANGED <<storeVars, engineReady, toPage, timers, reelVars, histVars>>

\* initEngine failed: the catch branch
InitFailed ==
    /\ initState = "pending"
    /\ Len(toRN) < MaxQueue
    /\ initState' = "done"
    /\ toRN' = Append(toRN, ErrorMsg("Init failed"))
    /\ engineFault' = TRUE
    /\ UNCHANGED <<engine, isReady, currentEval, search>>
    /\ UNCHANGED <<storeVars, engineReady, toPage, timers, reelVars, sessionId, asked>>

\* onEngineMessage('uciok') then onEngineMessage('readyok')
ReadyOk ==
    /\ engine = "worker"
    /\ ~isReady
    /\ Len(toRN) < MaxQueue
    /\ isReady' = TRUE
    /\ toRN' = Append(toRN, ReadyMsg)
    /\ UNCHANGED <<initState, engine, currentEval, search>>
    /\ UNCHANGED <<storeVars, engineReady, toPage, timers, reelVars, histVars>>

\* onEngineMessage for an 'info ... score' line of depth 8 or more; a position
\* without legal moves is searched to depth 0 only
EngineInfo ==
    /\ search # <<>>
    /\ LegalMoves(ParseFen(Head(search))) # {}
    /\ \E s \in RawScores :
           currentEval' = [set |-> TRUE, score |-> s, forFen |-> Head(search)]
    /\ UNCHANGED <<initState, engine, isReady, search, toRN>>
    /\ UNCHANGED <<storeVars, engineReady, toPage, timers, reelVars, histVars>>

\* the move the engine reports for a position
BestMoves(f) ==
    IF LegalMoves(ParseFen(f)) = {} THEN {Null} ELSE LegalMoves(ParseFen(f))

\* onEngineMessage for the 'bestmove' line of the oldest search
EngineBestmove ==
    /\ search # <<>>
    /\ search' = Tail(search)
    /\ currentEval' = NoEval
    /\ IF currentEval # NoEval
       THEN /\ Len(toRN) < MaxQueue
            /\ \E bm \in BestMoves(Head(search)) :
                   toRN' = Append(toRN, EvalMsg(currentEval, bm))
       ELSE UNCHANGED toRN
    /\ UNCHANGED <<initState, engine, isReady>>
    /\ UNCHANGED <<storeVars, engineReady, toPage, timers, reelVars, histVars>>

\* the next evaluate message is dispatched to the page as a 'message' event
HandleRNMessage ==
    /\ toPage # <<>>
    /\ (initState # "loading" /\ (engine = "null" \/ ~isReady))
           => Len(toRN) < MaxQueue
    /\ toPage' = Tail(toPage)
    /\ PageEvaluate(toRN, Head(toPage))
    /\ UNCHANGED <<storeVars, engineReady, timers, reelVars, sessionId>>

\* engine.onerror
WorkerError ==
    /\ engine = "worker"
    /\ Len(toRN) < MaxQueue
    /\ toRN' = Append(toRN, ErrorMsg("Worker error"))
    /\ engineFault' = TRUE
    /\ UNCHANGED pageVars
    /\ UNCHANGED <<storeVars, engineReady, toPage, timers, reelVars, sessionId, asked>>

\* ------------------------------------------------------------------------
Init ==
    /\ fen = Null
    /\ chess = NoChess
    /\ moveHistory = <<>>
    /\ lastMove = Null
    /\ suggestedMove = Null
    /\ playerColor = "w"
    /\ evaluation = 0
    /\ evalStatus = "safe"
    /\ isEvaluating = FALSE
    /\ isBotThinking = FALSE
    /\ sessionStatus = "idle"
    /\ isReelPaused = FALSE
    /\ engineReady = FALSE
    /\ initState = "none"
    /\ engine = "null"
    /\ isReady = FALSE
    /\ currentEval = NoEval
    /\ search = <<>>
    /\ toPage = <<>>
    /\ toRN = <<>>
    /\ timers = <<>>
    /\ playing = TRUE
    /\ hasTriggered = FALSE
    /\ showTriggerUI = FALSE
    /\ resumeTimer = FALSE
    /\ resetTimers = 0
    /\ sessionId = 0
    /\ asked = {}
    /\ engineFault = FALSE

Next ==
    \/ ReelTrigger
    \/ StartSession
    \/ MakeMove
    \/ EndSession
    \/ ResumeReel
    \/ ResetSession
    \/ FireBotTimer
    \/ FireFailTimer
    \/ HandleReady
    \/ HandleEval
    \/ HandleError
    \/ RunPageScript
    \/ InitOk
    \/ InitFailed
    \/ ReadyOk
    \/ HandleRNMessage
    \/ EngineInfo
    \/ EngineBestmove
    \/ WorkerError

Spec == Init /\ [][Next]_vars

\* ------------------------------------------------------------------------
\* The classification on its own: the store holds a score and its label

\* scores the page can report: centipawns / 100, or a mate score
ScoreRange == ((0 - MaxScore)..MaxScore) \cup {0 - MATE_SCORE, MATE_SCORE}

\* no component is mounted: nothing outside the store and its timers moves
NoComponent ==
    UNCHANGED <<engineReady, pageVars, toPage, toRN, reelVars, asked, engineFault>>

\* useGameStore.getState().updateEvaluation(score, bestMove), called on the
\* store directly
Classify ==
    /\ Len(timers) < MaxTimers
    /\ \E score \in ScoreRange, bestMove \in {Null, <<1, 2>>} :
           updateEvaluation(score, bestMove)
    /\ UNCHANGED sessionId
    /\ NoComponent

\* the callback of setTimeout(() => get().endSession(), 1200)
RunFailTimer ==
    /\ \E i \in 1..Len(timers) :
           /\ timers[i].kind = "fail"
           /\ CanFire(i)
           /\ timers' = RemoveAt(timers, i)
    /\ endSession
    /\ UNCHANGED sessionId
    /\ NoComponent

\* the callback of setTimeout(() => get().makeBotMove(bestMove), 500)
RunBotTimer ==
    /\ \E i \in 1..Len(timers) :
           /\ timers[i].kind = "bot"
           /\ CanFire(i)
           /\ makeBotMove(timers[i].bestMove)
           /\ timers' = RemoveAt(timers, i)
    /\ UNCHANGED sessionId
    /\ NoComponent

\* updateEvaluation and the endSession it schedules
ClassifySpec == Init /\ [][Classify \/ RunFailTimer]_vars

\* ------------------------------------------------------------------------
\* The store on its own: its functions called in any order

\* useGameStore.getState().startSession(fen, playerColor)
CallStartSession ==
    /\ sessionId < MaxSessions
    /\ sessionId' = sessionId + 1
    /\ \E f \in StartFens, pc \in Colors : startSession(f, pc)
    /\ UNCHANGED timers
    /\ NoComponent

\* useGameStore.getState().makeMove(from, to)
CallMakeMove ==
    /\ chess.ply < MaxPlies
    /\ \E from \in Squares, to \in Squares : makeMove(from, to)
    /\ UNCHANGED <<timers, sessionId>>
    /\ NoComponent

\* useGameStore.getState().updateEvaluation(score, bestMove) with a move the
\* engine could report for the position
CallUpdateEvaluation ==
    /\ Len(timers) < MaxTimers
    /\ \E score \in RawScores,
          bestMove \in {Null} \cup (IF chess = NoChess THEN {} ELSE LegalMoves(chess)) :
           updateEvaluation(score, bestMove)
    /\ UNCHANGED sessionId
    /\ NoComponent

\* useGameStore.getState().endSession()
CallEndSession ==
    /\ endSession
    /\ UNCHANGED <<timers, sessionId>>
    /\ NoComponent

\* useGameStore.getState().resetSession()
CallResetSession ==
    /\ resetSession
    /\ UNCHANGED <<timers, sessionId>>
    /\ NoComponent

StoreNext ==
    \/ CallStartSession
    \/ CallMakeMove
    \/ CallUpdateEvaluation
    \/ CallEndSession
    \/ CallResetSession
    \/ RunBotTimer
    \/ RunFailTimer

StoreSpec == Init /\ [][StoreNext]_vars

\* ------------------------------------------------------------------------
\* The engine page on its own: the HTML of buildEngineHTML loaded in a
\* WebView and sent evaluate messages at any time

\* the WebView loads the page
PageLoad ==
    /\ initState = "none"
    /\ FreshPage(FALSE)
    /\ UNCHANGED <<storeVars, engineReady, timers, reelVars, sessionId>>

\* webViewRef.current.postMessage({ type: 'evaluate', fen })
PostEvaluate ==
    /\ initState # "none"
    /\ Len(toPage) + Len(search) < MaxQueue
    /\ \E f \in StartFens : toPage' = Append(toPage, f)
    /\ UNCHANGED <<storeVars, engineReady, pageVars, toRN, timers, reelVars, histVars>>

\* onMessage takes the next message of the page
TakeMessage ==
    /\ toRN # <<>>
    /\ toRN' = Tail(toRN)
    /\ UNCHANGED <<storeVars, engineReady, pageVars, toPage, timers, reelVars, histVars>>

PageNext ==
    \/ PageLoad
    \/ PostEvaluate
    \/ TakeMessage
    \/ RunPageScript
    \/ InitOk
    \/ InitFailed
    \/ ReadyOk
    \/ HandleRNMessage
    \/ EngineInfo
    \/ EngineBestmove
    \/ WorkerError

PageSpec == Init /\ [][PageNext]_vars

\* a setTimeout callback that is due is eventually run by the event loop
FairSpec == Spec /\ WF_vars(FireBotTimer) /\ WF_vars(FireFailTimer)

\* the page starts its engine and works through its messages, the engine
\* finishes every search, onMessage handles every message of the page and
\* every setTimeout callback that is due is run
EngineFairSpec ==
    /\ Spec
    /\ WF_vars(RunPageScript)
    /\ WF_vars(InitOk \/ InitFailed)
    /\ WF_vars(ReadyOk)
    /\ WF_vars(HandleRNMessage)
    /\ WF_vars(EngineBestmove)
    /\ WF_vars(HandleReady)
    /\ WF_vars(HandleEval)
    /\ WF_vars(HandleError)
    /\ WF_vars(FireBotTimer)
    /\ WF_vars(FireFailTimer)

\* ------------------------------------------------------------------------
\* Staleness of evaluation responses

\* handleMessage receives an evaluation computed for a position that is not
\* the store's current fen
StaleEvalStep ==
    /\ toRN # <<>>
    /\ Head(toRN).type = "eval"
    /\ Head(toRN).forFen # fen
    /\ HandleEval

\* C1: an evaluation response computed for a position other than the store's
\* current fen never changes evaluation or evalStatus.
C1_StaleEvalKeepsScore ==
    [][StaleEvalStep => (evaluation' = evaluation /\ evalStatus' = evalStatus)]_vars

\* C2: a stale evaluation response changes no store field and schedules no
\* delayed makeBotMove or endSession.
C2_StaleEvalIsInert ==
    [][StaleEvalStep => UNCHANGED <<storeVars, timers>>]_vars

\* ------------------------------------------------------------------------
\* User moves

\* the session is not active, or it is not the player's turn
NotPlayersMove ==
    \/ sessionStatus # "active"
    \/ chess = NoChess
    \/ Turn(chess) # playerColor

\* C3: makeMove leaves every store field and the board unchanged when the
\* session is not active or the side to move is not playerColor.
C3_MakeMoveRejectedOutOfTurn ==
    [][(MakeMove /\ NotPlayersMove) => UNCHANGED storeVars]_vars

\* ------------------------------------------------------------------------
\* The automated opponent

\* a delayed makeBotMove changes the position
BotMoveApplied == FireBotTimer /\ fen' # fen

\* C4: an automated opponent move is applied only when the side to move
\* differs from playerColor and evalStatus is not 'fail'.
C4_BotMovesOnlyOnItsTurn ==
    [][BotMoveApplied => (Turn(chess) # playerColor /\ evalStatus # "fail")]_vars

\* ------------------------------------------------------------------------
\* Session lifecycle

\* C5: sessionStatus only changes idle -> active, active -> ended and
\* ended -> idle.
C5_LifecycleIsMonotonic ==
    [][sessionStatus' # sessionStatus =>
          <<sessionStatus, sessionStatus'>> \in
              {<<"idle", "active">>, <<"active", "ended">>, <<"ended", "idle">>}]_vars

\* C6: an evaluation response handled while the session is not active
\* changes no store field and schedules no timer.
C6_EvalOutsideSessionIsInert ==
    [][(HandleEval /\ sessionStatus # "active") => UNCHANGED <<storeVars, timers>>]_vars

\* the session and position a timer was scheduled for are no longer current
Outdated(t) ==
    \/ t.sid # sessionId
    \/ sessionStatus # "active"
    \/ t.forFen # fen

\* C7: a delayed callback changes the store when it fires only if the session
\* it was scheduled for is still active and the position it was scheduled for
\* is still current.
C7_TimersRevalidate ==
    [][\A i \in 1..Len(timers) :
          ((FireBot(i) \/ FireFail(i)) /\ Outdated(timers[i])) => UNCHANGED storeVars]_vars

\* ------------------------------------------------------------------------
\* Session termination

\* an evaluation classified 'fail' has been applied and its endSession
\* callback is pending
FailPending == \E i \in 1..Len(timers) : timers[i].kind = "fail"

\* C8: once an applied evaluation classifies as 'fail', the session
\* eventually has sessionStatus 'ended' with isReelPaused false, whatever
\* moves, responses and errors occur meanwhile.
C8_FailLeadsToEnded == FailPending ~> (sessionStatus = "ended" /\ ~isReelPaused)

\* the session of a failed evaluation was ended by the delayed endSession
C8_Witness ==
    /\ sessionStatus = "ended"
    /\ ~isReelPaused
    /\ evalStatus = "fail"
    /\ fen # Null
    /\ timers = <<>>

\* a callback that ends the session is appended to the timer queue
FailScheduled ==
    /\ Len(timers') = Len(timers) + 1
    /\ timers'[Len(timers')].kind = "fail"

\* C9: an active session becomes 'ended' only by the endSession command or
\* by the delayed endSession of an applied evaluation that classified as
\* 'fail'; moves, engine errors and other evaluations never end it.
C9_OnlyEndOrFailEnds ==
    [][/\ (sessionStatus = "active" /\ sessionStatus' = "ended")
            => (EndSession \/ FireFailTimer)
       /\ FailScheduled => (HandleEval /\ evalStatus' = "fail")]_vars

\* a session with moves played ended after a failed evaluation
C9_Witness ==
    /\ sessionStatus = "ended"
    /\ evalStatus = "fail"
    /\ moveHistory # <<>>
    /\ timers = <<>>

\* the page has accepted a request for the position the session started
\* from; no result for that position can be applied before this
StartPositionAsked == \E f \in StartFens : f \in asked

\* the engine of the session did not become ready, or broke down
EngineUnavailable == engineFault

\* the engine left a request unanswered: an evaluation is awaited while no
\* request, search or message is under way
EngineSilent ==
    /\ engineReady
    /\ isEvaluating
    /\ toPage = <<>>
    /\ search = <<>>
    /\ toRN = <<>>

\* C10: after startSession, if the engine becomes ready and answers
\* requests, an evaluation result for the starting position is eventually
\* applied; for that the engine must eventually be asked for the starting
\* position, unless the session is over, the engine is unavailable or it
\* left a request unanswered.
C10_StartPositionIsEvaluated ==
    (sessionStatus = "active")
        ~> \/ StartPositionAsked
           \/ sessionStatus # "active"
           \/ EngineUnavailable
           \/ EngineSilent

\* ------------------------------------------------------------------------
\* Start and reset of a session

\* C11: right after startSession the session is active with isEvaluating
\* true, isBotThinking false, evaluation 0, evalStatus 'safe', an empty
\* moveHistory, and lastMove and suggestedMove null.
C11_StartSessionResetsFields ==
    [][(StartSession \/ CallStartSession) =>
          (/\ sessionStatus' = "active"
           /\ isEvaluating'
           /\ ~isBotThinking'
           /\ evaluation' = 0
           /\ evalStatus' = "safe"
           /\ moveHistory' = <<>>
           /\ lastMove' = Null
           /\ suggestedMove' = Null)]_vars

\* C12: right after resetSession the status is 'idle' and every session
\* field has its initial value, suggestedMove included; and sessionStatus
\* becomes 'idle' by resetSession only.
C12_ResetSessionClearsFields ==
    [][/\ ResetSession =>
            (/\ sessionStatus' = "idle"
             /\ fen' = Null
             /\ chess' = NoChess
             /\ lastMove' = Null
             /\ suggestedMove' = Null
             /\ moveHistory' = <<>>
             /\ evaluation' = 0
             /\ evalStatus' = "safe"
             /\ ~isEvaluating'
             /\ ~isBotThinking'
             /\ ~isReelPaused')
       /\ (sessionStatus # "idle" /\ sessionStatus' = "idle") => ResetSession]_vars

\* ------------------------------------------------------------------------
\* Classification of the score

\* C13: in every reachable state evalStatus is classifyEval(evaluation):
\* 'fail' up to -1.5 pawns, 'warning' up to -0.8 pawns, 'safe' above.
C13_StatusIsClassOfScore == evalStatus = classifyEval(evaluation)

\* an applied evaluation put the store in the warning tier
C13_Witness ==
    /\ evalStatus = "warning"
    /\ evaluation = WARNING_THRESHOLD
    /\ sessionStatus = "active"

\* position of a label on the scale from fail to safe
TierRank(status) == IF status = "fail" THEN 0 ELSE IF status = "warning" THEN 1 ELSE 2

\* the label of the stored score follows the thresholds, boundaries included
C14_Thresholds ==
    /\ evalStatus \in {"fail", "warning", "safe"}
    /\ evalStatus = "fail" <=> evaluation <= -150
    /\ evalStatus = "warning" <=> (-150 < evaluation /\ evaluation <= -80)
    /\ evalStatus = "safe" <=> evaluation > -80
    /\ classifyEvaluation(evaluation) = evalStatus

\* C14: the classification is total and follows the thresholds: fail up to
\* -1.5 pawns, warning above -1.5 up to -0.8, safe above -0.8; and a lower
\* score never gets a label nearer to safe.
C14_ClassifyFollowsThresholds ==
    /\ []C14_Thresholds
    /\ [][evaluation' <= evaluation
              => TierRank(evalStatus') <= TierRank(evalStatus)]_vars

\* the score on the fail boundary has been classified
C14_Witness == evaluation = FAIL_THRESHOLD /\ evalStatus = "fail"

\* ------------------------------------------------------------------------
\* Perspective of the score

\* the raw score of a response seen from playerColor, given the side to
\* move of the position the engine evaluated
ScoreForPlayer(msg) ==
    IF Turn(ParseFen(msg.forFen)) = playerColor THEN msg.score ELSE 0 - msg.score

\* C15: the score an applied evaluation stores is the raw engine score when
\* the side to move of the evaluated position is playerColor, and the
\* negated raw score otherwise.
C15_ScoreIsFromPlayersView ==
    [][HandleEval => evaluation' = ScoreForPlayer(Head(toRN))]_vars

\* the side to move of the store's position is not playerColor
SidesDiffer == chess # NoChess /\ Turn(chess) # playerColor

\* the scores of the model's engine, their negations, zero and the mate scores
SampleScores ==
    RawScores \cup {0 - r : r \in RawScores} \cup {0, MATE_SCORE, 0 - MATE_SCORE}

\* C16: adjusting a score twice for the same position and playerColor gives
\* the score back, and adjusting it when the side to move is playerColor
\* leaves it as it is.
C16_AdjustIsInvolution ==
    \A s \in SampleScores :
        /\ AdjustScore(AdjustScore(s)) = s
        /\ SidesDiffer => AdjustScore(s) = 0 - s
        /\ ~SidesDiffer => AdjustScore(s) = s

\* an evaluation was applied with the opponent to move: the stored score is
\* the negated raw score and the opponent's reply is scheduled
C16_Witness ==
    /\ sessionStatus = "active"
    /\ SidesDiffer
    /\ isBotThinking
    /\ evaluation = 80
    /\ AdjustScore(evaluation) = -80

\* ------------------------------------------------------------------------
\* The opponent's reply

\* timer i was scheduled in the session that is current and still active
InLiveSession(i) == timers[i].sid = sessionId /\ sessionStatus = "active"

\* C17: the reply scheduled by an evaluation applied in an active session
\* with the opponent to move is played when its delay has passed, unless the
\* session ended meanwhile: the move is the bestMove of that evaluation, and
\* right after it isEvaluating is true, isBotThinking is false and the side
\* to move is playerColor.
C17_ScheduledReplyIsPlayed ==
    [][\A i \in 1..Len(timers) :
          (FireBot(i) /\ InLiveSession(i)) =>
              (/\ fen' # fen
               /\ lastMove' = timers[i].bestMove
               /\ isEvaluating'
               /\ ~isBotThinking'
               /\ Turn(chess') = playerColor)]_vars

\* C18: every move the automated opponent applies is the bestMove of a
\* response that was computed for the position that is current right before
\* the move is applied.
C18_ReplyIsForCurrentPosition ==
    [][\A i \in 1..Len(timers) :
          (FireBot(i) /\ fen' # fen) => timers[i].evalFen = fen]_vars

\* ------------------------------------------------------------------------
\* Engine errors

\* C19: handling an error message leaves sessionStatus as it was, clears
\* isEvaluating, leaves evaluation, evalStatus, the position and moveHistory
\* unchanged and schedules neither an opponent move nor a session end.
C19_ErrorDegradesGracefully ==
    [][HandleError =>
          (/\ sessionStatus' = sessionStatus
           /\ ~isEvaluating'
           /\ UNCHANGED <<evaluation, evalStatus, fen, chess, moveHistory>>
           /\ UNCHANGED <<isBotThinking, timers>>)]_vars

\* an engine error was handled in an active session before any evaluation
C19_Witness ==
    /\ sessionStatus = "active"
    /\ engineFault
    /\ ~isEvaluating
    /\ evaluation = 0
    /\ toRN = <<>>
    /\ timers = <<>>

\* ------------------------------------------------------------------------
\* Illegal moves

\* move m is not legal in the store's position
IllegalNow(m) == chess # NoChess /\ m \notin LegalMoves(chess)

RequestBeforeReady == HandleRNMessage /\ (engine = "null" \/ ~isReady)

\* the page answered the request with 'Engine not ready'
Rejected == toRN' = Append(toRN, ErrorMsg("Engine not ready"))

Outstanding ==
    Len(toPage) + Len(search)
        + Len(SelectSeq(toRN, LAMBDA msg : msg.type = "eval"))

\* C22: in an active session at most one evaluate request is awaiting a
\* response that can be applied to the store.
C22_OneOutstandingRequest ==
    sessionStatus = "active" => Outstanding <= 1

\* nothing is under way that could still run on its own: no page is loading,
\* no engine is starting up or searching, no message is in flight and no
\* callback is pending
Quiet ==
    /\ initState \notin {"loading", "pending"}
    /\ ~(engine = "worker" /\ ~isReady)
    /\ toPage = <<>>
    /\ search = <<>>
    /\ toRN = <<>>
    /\ timers = <<>>

\* C23: isEvaluating does not stay true for ever in an active session: while
\* it is true something is under way that will clear it, be it the engine's
\* answer or a bounded wait that treats the silent engine as failed.
C23_EvaluatingIsCleared ==
    (sessionStatus = "active" /\ isEvaluating) => ~Quiet

\* ------------------------------------------------------------------------
\* What follows an applied evaluation

\* the callback appended to the timer queue by this step, if any
Scheduled(kind) ==
    /\ Len(timers') = Len(timers) + 1
    /\ timers'[Len(timers')].kind = kind

\* the store sits in an active session that has not failed, with the
\* opponent to move, no evaluation awaited and no reply pending
IdleOnOpponent ==
    /\ sessionStatus = "active"
    /\ evalStatus # "fail"
    /\ SidesDiffer
    /\ ~isEvaluating
    /\ ~isBotThinking
    /\ timers = <<>>

\* C24: an evaluation applied in an active session either schedules the end
\* of the session (fail), or schedules the opponent's move (opponent to move,
\* not fail), or leaves the player to move with nothing scheduled; and the
\* scheduled opponent move never leaves the orchestrator idle in an active,
\* non-fail state with the opponent to move and nothing scheduled.
C24_OneOutcomePerEvaluation ==
    [][/\ (HandleEval /\ sessionStatus = "active") =>
             \/ evalStatus' = "fail" /\ Scheduled("fail")
             \/ evalStatus' # "fail" /\ SidesDiffer /\ Scheduled("bot") /\ isBotThinking'
             \/ evalStatus' # "fail" /\ ~SidesDiffer /\ timers' = timers
       /\ FireBotTimer => ~IdleOnOpponent']_vars

\* ------------------------------------------------------------------------
\* The suggestion shown to the player

\* C25: a non-null suggestedMove belongs to a position in which the player
\* is to move; it is never held (and so never shown) while the opponent is
\* to move.
C25_SuggestionIsForPlayer ==
    suggestedMove # Null => (chess # NoChess /\ Turn(chess) = playerColor)

\* ------------------------------------------------------------------------
\* The move history

\* a move was applied to the board: makeMove or makeBotMove succeeded
MoveApplied == fen # Null /\ fen' # Null /\ fen' # fen

\* C26: a successful makeMove or makeBotMove advances the position by one
\* ply, appends exactly one SAN entry to moveHistory and sets lastMove to the
\* move; nothing else changes moveHistory between startSession and
\* resetSession, so its length is the number of moves applied in the session.
C26_OneRecordPerMove ==
    /\ [](chess # NoChess => Len(moveHistory) = chess.ply)
    /\ [][/\ MoveApplied =>
                (/\ MakeMove \/ FireBotTimer
                 /\ lastMove' \in LegalMoves(chess)
                 /\ chess' = ApplyMove(chess, lastMove')
                 /\ chess'.ply = chess.ply + 1
                 /\ moveHistory' = Append(moveHistory, San(chess, lastMove')))
          /\ moveHistory' # moveHistory =>
                (MoveApplied \/ StartSession \/ ResetSession)]_vars

\* the player's move and the opponent's reply are both on record
C26_Witness ==
    /\ sessionStatus = "active"
    /\ Len(moveHistory) = 2
    /\ chess.ply = 2
    /\ lastMove # Null
    /\ Turn(chess) = playerColor

\* ------------------------------------------------------------------------
\* The reel after a session

\* the reel player's timeouts are run by the event loop once they are due
ReelFairSpec == Spec /\ WF_vars(ResumeReel) /\ WF_vars(ResetSession)

\* C27: whenever sessionStatus becomes 'ended' the reel player resumes
\* playback and afterwards resetSession is called, so the status eventually
\* becomes 'idle'; the reset never happens before playback has resumed.
C27_EndedResumesThenResets ==
    /\ (sessionStatus = "ended") ~> (sessionStatus = "idle")
    /\ [](resetTimers > 0 => (playing /\ ~resumeTimer))
    /\ [][(sessionStatus = "ended" /\ sessionStatus' = "idle")
            => (ResetSession /\ playing /\ ~resumeTimer)]_vars

\* a session ended, the reel resumed and the store was reset
C27_Witness ==
    /\ sessionStatus = "idle"
    /\ sessionId = 1
    /\ playing
    /\ ~resumeTimer
    /\ resetTimers = 0

\* ------------------------------------------------------------------------
\* Evaluate requests

\* the evaluate effect posted a request to the page
Dispatched == Len(toPage') = Len(toPage) + 1

\* C28: an evaluate request is dispatched only when isEvaluating is true,
\* engineReady is true, fen is non-null and sessionStatus is 'active', and it
\* carries the store's current fen; every successful move in an active
\* session with engineReady set dispatches a request for the new position.
C28_RequestsFollowTheStore ==
    [][/\ Dispatched =>
              (/\ isEvaluating' /\ engineReady' /\ fen' # Null
               /\ sessionStatus' = "active"
               /\ toPage'[Len(toPage')] = fen')
       /\ (MoveApplied /\ sessionStatus = "active" /\ engineReady) => Dispatched]_vars

\* the request for the position reached by the opponent's reply is on its
\* way to the page
C28_Witness ==
    /\ sessionStatus = "active"
    /\ engineReady
    /\ isEvaluating
    /\ Len(moveHistory) = 2
    /\ Turn(chess) = playerColor
    /\ toPage # <<>>
    /\ toPage[Len(toPage)] = fen

\* the last message of the queue after the step
LastSent == toRN'[Len(toRN')]

\* C29: when the engine emits the bestmove line of an accepted request, the
\* page answers with exactly one eval or error message, whatever info lines
\* the search reported before.
C29_BestmoveIsAnswered ==
    [][EngineBestmove =>
          (/\ Len(toRN') = Len(toRN) + 1
           /\ LastSent.type \in {"eval", "error"})]_vars

\* C30: engineReady is true only while the page of the mounted WebView has
\* itself reported ready, so no evaluate request can go to an engine that
\* has not.
C30_ReadyFlagIsOfMountedPage ==
    engineReady => (engine = "worker" /\ isReady)

\* ------------------------------------------------------------------------
\* Mate scores

\* the response reports a forced mate against playerColor in the position
\* the engine evaluated
MateAgainstPlayer(msg) == ScoreForPlayer(msg) = 0 - MATE_SCORE

\* the response reports a forced mate for playerColor
MateForPlayer(msg) == ScoreForPlayer(msg) = MATE_SCORE

\* C31: a mate score is +999 or -999 pawns; an applied evaluation that
\* reports a forced mate against the player classifies as 'fail', one that
\* reports a forced mate for the player classifies as 'safe'.
C31_MateIsExtreme ==
    [][(HandleEval /\ sessionStatus = "active") =>
          (/\ MateAgainstPlayer(Head(toRN)) => evalStatus' = "fail"
           /\ MateForPlayer(Head(toRN)) => evalStatus' = "safe")]_vars

\* ------------------------------------------------------------------------
\* Store invariants

\* C32: isReelPaused is true exactly when sessionStatus is 'active'.
C32_ReelPausedIffActive == isReelPaused <=> (sessionStatus = "active")

\* a session is active with moves played while the video is paused
C32_Witness ==
    /\ sessionStatus = "active"
    /\ isReelPaused
    /\ moveHistory # <<>>
    /\ ~playing

\* a delayed makeBotMove has been scheduled and has not run yet
BotPending == \E i \in 1..Len(timers) : timers[i].kind = "bot"

\* C33: isBotThinking is true only while the session is active and a
\* scheduled makeBotMove has not fired yet.
C33_BotThinkingTracksTimer ==
    isBotThinking => (sessionStatus = "active" /\ BotPending)

\* C34: endSession sets sessionStatus to 'ended' and isReelPaused to false
\* and leaves every other store field alone; a second endSession changes
\* nothing.
C34_EndSessionFrame ==
    [][(EndSession \/ FireFailTimer) =>
          (/\ sessionStatus' = "ended"
           /\ ~isReelPaused'
           /\ UNCHANGED <<fen, chess, moveHistory, lastMove, suggestedMove,
                          playerColor, evaluation, evalStatus, isEvaluating,
                          isBotThinking>>
           /\ sessionStatus = "ended" => UNCHANGED storeVars)]_vars

\* a session with a move on the board was ended while its evaluation was
\* outstanding
C34_Witness ==
    /\ sessionStatus = "ended"
    /\ ~isReelPaused
    /\ isEvaluating
    /\ lastMove # Null
    /\ Len(moveHistory) = 1
    /\ fen = FenOf(chess)

\* C35: whenever the store holds a chess instance, fen is the serialization
\* of that instance's current position.
C35_FenMatchesBoard == chess # NoChess => fen = FenOf(chess)

\* two moves have been made on the board of an active session
C35_Witness ==
    /\ sessionStatus = "active"
    /\ chess.ply = 2
    /\ fen # Null
    /\ fen[3] = 2
    /\ ParseFen(fen) = chess

\* C36: in an idle store fen and chess are null and moveHistory is empty;
\* in an active or ended session fen and chess are non-null.
C36_PositionFollowsLifecycle ==
    /\ sessionStatus = "idle" => (fen = Null /\ chess = NoChess /\ moveHistory = <<>>)
    /\ sessionStatus \in {"active", "ended"} => (fen # Null /\ chess # NoChess)

\* ------------------------------------------------------------------------
\* The two classifiers

\* C37: for every score the store's classifyEval and the controller's
\* classifyEvaluation give the same tier, and evaluatePosition says
\* shouldContinue = false exactly when that tier is 'fail'.
C37_ClassifiersAgree ==
    /\ evalStatus = classifyEval(evaluation)
    /\ classifyEvaluation(evaluation) = classifyEval(evaluation)
    /\ evaluatePosition(evaluation).status = evalStatus
    /\ evaluatePosition(evaluation).shouldContinue <=> (evalStatus # "fail")

\* the score on the warning boundary has been classified by both
C37_Witness ==
    /\ evaluation = WARNING_THRESHOLD
    /\ evalStatus = "warning"
    /\ evaluatePosition(evaluation) = [status |-> "warning", shouldContinue |-> TRUE]

====
